---- MODULE Spec2Model ----
(***************************************************************************)
(* State-machine model of ImageGenerationService (src/app.py): the         *)
(* validator registry kept in memory and in MongoDB, the auth-key cache,   *)
(* the metagraph snapshot, the /generate dispatch loop, validator          *)
(* registration (/get_credentials) and the background recheck and          *)
(* metagraph-sync threads.                                                 *)
(*                                                                         *)
(* A coroutine of the event loop runs without interruption by another      *)
(* coroutine between two awaits, so /generate is cut at its only await     *)
(* that waits for the outside world (client.post).  The two daemon         *)
(* threads are cut at their blocking calls.  The per-day counter           *)
(* dictionary is modelled for one calendar day (the entry of               *)
(* str(date.today())).  MongoDB is reachable and answers every call.       *)
(***************************************************************************)
EXTENDS Integers, Sequences, FiniteSets, TLC

\* ------------------------------------------------------------- bounds
\* registrations, recheck sweeps and metagraph syncs of one run, taken together
MaxEvents == 3

\* ------------------------------------------------------------- inputs
Hotkeys == {"h1", "h2"}
HotkeyOrder == <<"h1", "h2">>
StakeValues == {0, 1}
ClientIps == {"10.0.0.1"}
Postfixes == {"", ":8000/a", ":8000/b"}
Uids == -3 .. 2
ProvisionedKeys == {"k1"}
RequestKeys == {"k1", "bad"}
Calls == {"c1"}
Statuses == {200, 201, 500}
Bodies == {"json", "empty", "garbage"}

VARIABLES
    available_validators,   \* self.available_validators: hotkey -> record
    validators_collection,  \* MongoDB collection "validators": _id -> document
    auth_keys,              \* self.auth_keys: key -> request_count
    auth_keys_collection,   \* MongoDB collection "auth_keys"
    metagraph,              \* self.metagraph: hotkeys and total_stake by uid
    call,                   \* one record per /generate coroutine
    probes,                 \* check_validator threads in flight: <<hotkey, sweep>>
    sweepPc,                \* position of the recheck_validators loop
    nEvents,                \* registrations, sweeps and syncs so far (bounds the run)
    nSweeps,                \* number of the current recheck sweep
    sweepWrite,             \* the sweep's write loop: hotkeys left, update_one in flight
    healthDown,             \* history: hotkeys deactivated by check_validator, inactive since
    staleProbes,            \* history: probes in flight whose hotkey registered after they started
    lastEvt                 \* history: what the last step did

vars == <<available_validators, validators_collection, auth_keys,
          auth_keys_collection, metagraph, call, probes, sweepPc,
          nEvents, nSweeps, sweepWrite, healthDown,
          staleProbes, lastEvt>>

\* ------------------------------------------------------------- values
NoCounter == [present |-> FALSE, success |-> 0, failure |-> 0]
ZeroCounter == [present |-> TRUE, success |-> 0, failure |-> 0]

None == [kind |-> "None", from |-> "-"]

\* "http://" + client_ip + postfix
Endpoint(client_ip, postfix) == <<"http://", client_ip, postfix>>

\* bool(x) of a response body as Python evaluates `if output` / `not output`
Truthy(x) == x.kind \in {"json", "error"}

\* response.json(), and the except branch that replaces the body by {"error": str(e)}
ResponseJson(body, hotkey) ==
    CASE body = "json" -> [kind |-> "json", from |-> hotkey]
      [] body = "empty" -> [kind |-> "empty", from |-> hotkey]
      [] OTHER -> [kind |-> "error", from |-> hotkey]

NoEndpoint == <<"-", "-", "-">>

Evt(op, c, hotkey, kind) ==
    [op |-> op, hotkey |-> hotkey, kind |-> kind, status |-> 0, body |-> "-",
     endpoint |-> NoEndpoint]

\* ------------------------------------------------------------- metagraph
MakeMetagraph(members, stake) ==
    LET hk == SelectSeq(HotkeyOrder, LAMBDA h : h \in members)
    IN  [hotkeys |-> hk, total_stake |-> [i \in 1 .. Len(hk) |-> stake[hk[i]]]]

Metagraphs ==
    {MakeMetagraph(m, s) : m \in SUBSET Hotkeys, s \in [Hotkeys -> StakeValues]}

\* hotkey in self.metagraph.hotkeys
InMetagraph(hotkey) == \E i \in 1 .. Len(metagraph.hotkeys) : metagraph.hotkeys[i] = hotkey

\* self.metagraph.hotkeys.index(hotkey), 1-based
IndexOf(hotkey) ==
    CHOOSE i \in 1 .. Len(metagraph.hotkeys) :
        /\ metagraph.hotkeys[i] = hotkey
        /\ \A j \in 1 .. (i - 1) : metagraph.hotkeys[j] # hotkey

\* self.metagraph.total_stake[self.metagraph.hotkeys.index(hotkey)]
StakeOf(hotkey) == metagraph.total_stake[IndexOf(hotkey)]

\* self.metagraph.hotkeys[uid]: a Python list index, negative uids count from the end
UidInRange(uid) == (0 - Len(metagraph.hotkeys)) <= uid /\ uid < Len(metagraph.hotkeys)

HotkeyOfUid(uid) ==
    IF uid >= 0 THEN metagraph.hotkeys[uid + 1]
    ELSE metagraph.hotkeys[Len(metagraph.hotkeys) + uid + 1]

\* ------------------------------------------------------------- store
\* update_one({"_id": hotkey}, {"$set": record}): the fields the record holds
\* replace those of the document; a record without "counter" leaves it alone
SetFields(doc, record) ==
    [generate_endpoint |-> record.generate_endpoint,
     is_active |-> record.is_active,
     counter |-> IF record.counter.present THEN record.counter ELSE doc.counter]

UpdateOne(collection, hotkey, record, upsert) ==
    IF hotkey \in DOMAIN collection
    THEN [collection EXCEPT ![hotkey] = SetFields(@, record)]
    ELSE IF upsert
         THEN [h \in DOMAIN collection \cup {hotkey} |->
                  IF h = hotkey THEN record ELSE collection[h]]
         ELSE collection

\* {doc["_id"]: doc for doc in self.validators_collection.find()}
get_available_validators == validators_collection

\* {doc["_id"]: doc for doc in self.auth_keys_collection.find()}
get_auth_keys == auth_keys_collection

\* ------------------------------------------------------------- registry
\* mutant of SyncDbMerge: the persisted copy replaces the in-memory record
SyncDbOverwrites(memory, persisted) ==
    [h \in DOMAIN memory \cup DOMAIN persisted |->
        IF h \in DOMAIN persisted THEN persisted[h] ELSE memory[h]]

\* mutant of SyncDbMerge: nothing is taken from the store
SyncDbAddsNothing(memory, persisted) == memory

\* the validator part of sync_db: persisted records not yet in memory are added
SyncDbMerge(memory, persisted) ==
    [h \in DOMAIN memory \cup DOMAIN persisted |->
        IF h \in DOMAIN memory THEN memory[h] ELSE persisted[h]]

sync_db_validators == SyncDbMerge(available_validators, get_available_validators)

\* mutant of FilterMemory: non-members are dropped, the flag is left as loaded
FilterMemoryKeepsFlag(memory, members) ==
    [h \in {k \in DOMAIN memory : k \in members} |-> memory[h]]

\* filter_validators, the in-memory result: every record deactivated,
\* records whose hotkey left the metagraph dropped
FilterMemory(memory, members) ==
    [h \in {k \in DOMAIN memory : k \in members} |->
        [memory[h] EXCEPT !.is_active = FALSE]]

\* filter_validators, the persisted result: delete_one for each dropped hotkey
FilterStore(memory, collection, members) ==
    [h \in {k \in DOMAIN collection : ~(k \in DOMAIN memory /\ k \notin members)} |->
        collection[h]]

MembersOf(m) == {m.hotkeys[i] : i \in 1 .. Len(m.hotkeys)}

\* ------------------------------------------------------------- history
\* hotkeys that check_validator deactivated and that have been inactive since
\* and probes still running that a registration of their hotkey has overtaken
GhostHealthDown(newlyDown) ==
    /\ healthDown' =
           {h \in healthDown \cup newlyDown :
               /\ h \in DOMAIN available_validators'
               /\ ~available_validators'[h].is_active}
    /\ staleProbes' =
           {p \in probes' :
               \/ p \in staleProbes
               \/ /\ p \in probes
                  /\ lastEvt'.op = "get_credentials"
                  /\ lastEvt'.kind \in {"new", "update"}
                  /\ lastEvt'.hotkey = p[1]}

\* ------------------------------------------------------------- Init
InitRecord ==
    [generate_endpoint |-> Endpoint("10.0.0.1", ":8000/a"),
     is_active |-> TRUE,
     counter |-> NoCounter]

\* the store the process finds at start: empty, or holding earlier registrations
InitialStores == {[h \in {} |-> InitRecord], [h \in Hotkeys |-> InitRecord]}

\* the write loop of recheck_validators is not running
NoSweepWrite ==
    [todo |-> {}, busy |-> FALSE, hotkey |-> "-", record |-> InitRecord]

\* the metagraph the process loads at start
InitialMetagraph == MakeMetagraph(Hotkeys, [h \in Hotkeys |-> IF h = "h1" THEN 1 ELSE 0])

IdleCall ==
    [pc |-> "idle", key |-> "-", validators |-> {}, hotkey |-> "-",
     output |-> None, outcome |-> "-", sent |-> <<>>, eligible0 |-> {},
     failed |-> {}, billed |-> 0]

\* __init__: load the registry from the store, filter_validators, load the keys
Init ==
    /\ metagraph = InitialMetagraph
    /\ \E store0 \in InitialStores :
          /\ available_validators = FilterMemory(store0, MembersOf(metagraph))
          /\ validators_collection = FilterStore(store0, store0, MembersOf(metagraph))
    /\ auth_keys_collection = [k \in ProvisionedKeys |-> 0]
    /\ auth_keys = auth_keys_collection
    /\ call = [c \in Calls |-> IdleCall]
    /\ probes = {}
    /\ sweepPc = "sleep"
    /\ nEvents = 0
    /\ nSweeps = 0
    /\ sweepWrite = NoSweepWrite
    /\ healthDown = {}
    /\ staleProbes = {}
    /\ lastEvt = Evt("init", "-", "-", "-")

\* ------------------------------------------------------------- /get_credentials
\* mutant of RegisterRecord: a fresh record is stored whether or not one exists
RegisterFreshRecord(memory, hotkey, endpoint) ==
    [generate_endpoint |-> endpoint, is_active |-> TRUE, counter |-> NoCounter]

\* available_validators.setdefault(hotkey, {}) followed by new_validator.update(...)
RegisterRecord(memory, hotkey, endpoint) ==
    IF hotkey \in DOMAIN memory
    THEN [memory[hotkey] EXCEPT !.generate_endpoint = endpoint, !.is_active = TRUE]
    ELSE [generate_endpoint |-> endpoint, is_active |-> TRUE, counter |-> NoCounter]

get_credentials(client_ip, uid, postfix) ==
    /\ nEvents < MaxEvents
    /\ nEvents' = nEvents + 1
    /\ UNCHANGED <<auth_keys, auth_keys_collection, metagraph, call, probes,
                   sweepPc, nSweeps>>
    /\ IF ~UidInRange(uid)
       THEN \* self.metagraph.hotkeys[uid] raises IndexError
            /\ UNCHANGED <<available_validators, validators_collection>>
            /\ lastEvt' = Evt("get_credentials", "-", "-", "IndexError")
       ELSE IF postfix = ""
       THEN /\ UNCHANGED <<available_validators, validators_collection>>
            /\ lastEvt' = Evt("get_credentials", "-", HotkeyOfUid(uid), "404")
       ELSE LET hotkey == HotkeyOfUid(uid)
                new_validator ==
                    RegisterRecord(available_validators, hotkey,
                                   Endpoint(client_ip, postfix))
            IN  /\ available_validators' =
                       [h \in DOMAIN available_validators \cup {hotkey} |->
                           IF h = hotkey THEN new_validator
                           ELSE available_validators[h]]
                /\ validators_collection' =
                       UpdateOne(validators_collection, hotkey, new_validator, TRUE)
                /\ lastEvt' =
                       [Evt("get_credentials", "-", hotkey,
                            IF hotkey \in DOMAIN available_validators
                            THEN "update" ELSE "new")
                        EXCEPT !.endpoint = Endpoint(client_ip, postfix)]
    /\ UNCHANGED sweepWrite
    /\ GhostHealthDown({})

\* the same handler running in another router instance on the same store
other_instance_get_credentials(hotkey, client_ip, postfix) ==
    /\ nEvents < MaxEvents
    /\ nEvents' = nEvents + 1
    /\ postfix # ""
    /\ validators_collection' =
           UpdateOne(validators_collection, hotkey,
                     [generate_endpoint |-> Endpoint(client_ip, postfix),
                      is_active |-> TRUE, counter |-> NoCounter], TRUE)
    /\ lastEvt' = Evt("other_instance", "-", hotkey, "upsert")
    /\ UNCHANGED <<available_validators, auth_keys, auth_keys_collection,
                   metagraph, call, probes, sweepPc, nSweeps>>
    /\ UNCHANGED sweepWrite
    /\ GhostHealthDown({})

\* ------------------------------------------------------------- /generate
\* mutant of CheckAuthRaises: the key is never rejected
CheckAuthNeverRaises(key, keys) == FALSE

\* check_auth: key not in self.get_auth_keys()
CheckAuthRaises(key, keys) == key \notin DOMAIN keys

\* mutant of Candidates: the is_active test of line 203 is left out
CandidatesAnyFlag(memory) ==
    {<<h, StakeOf(h)>> : h \in {k \in DOMAIN memory : InMetagraph(k)}}

\* the candidate list of lines 199-207: active records whose hotkey is in the
\* metagraph, each paired with its stake
Candidates(memory) ==
    {<<h, StakeOf(h)>> : h \in {k \in DOMAIN memory : memory[k].is_active /\ InMetagraph(k)}}

\* random.choices(validators, weights=stakes, k=1)[0]: some candidate of
\* positive weight; with a total weight of zero the call raises ValueError
\* ("Total of weights must be greater than zero")
ChoicesPicks(validators) == {v \in validators : v[2] > 0}

ChoicesRaises(validators) == ChoicesPicks(validators) = {}

\* mutant of RemoveSampled: the sampled candidate stays in the pool
KeepSampled(validators, validator) == validators

\* validators.remove(validator)
RemoveSampled(validators, validator) == validators \ {validator}

\* setdefault("counter", {}) and setdefault(str(date.today()), {"success": 0, "failure": 0})
SetDefaultCounter(counter) == IF counter.present THEN counter ELSE ZeroCounter

\* lines 253-256
CountAttempt(counter, output) ==
    IF Truthy(output)
    THEN [counter EXCEPT !.success = @ + 1]
    ELSE [counter EXCEPT !.failure = @ + 1]

\* lines 268-272
Outcome(output, memory) ==
    IF Truthy(output) THEN "result"
    ELSE IF DOMAIN memory = {} THEN "NoValidatorsAvailable"
    ELSE "AllValidatorsFailed"

\* The while loop from its head to the next await or to the end of the handler.
\* rec, memory, keys, vcoll and kcoll are the values the handler holds when it
\* reaches the loop head.
DispatchLoop(c, rec, memory, keys, vcoll, kcoll) ==
    /\ auth_keys' = keys
    /\ validators_collection' = vcoll
    /\ auth_keys_collection' = kcoll
    /\ IF rec.validators = {} \/ Truthy(rec.output)
       THEN /\ available_validators' = memory
            /\ call' = [call EXCEPT ![c] =
                           [rec EXCEPT !.pc = "done",
                                       !.outcome = Outcome(rec.output, memory)]]
       ELSE \/ \E validator \in ChoicesPicks(rec.validators) :
                  LET hotkey == validator[1] IN
                  /\ available_validators' =
                         [memory EXCEPT ![hotkey].counter = SetDefaultCounter(@)]
                  /\ call' = [call EXCEPT ![c] =
                                 [rec EXCEPT !.pc = "await",
                                             !.validators = RemoveSampled(@, validator),
                                             !.hotkey = hotkey,
                                             !.sent = Append(@, hotkey)]]
            \/ /\ ChoicesRaises(rec.validators)
               /\ available_validators' = memory
               /\ call' = [call EXCEPT ![c] =
                              [rec EXCEPT !.pc = "done", !.outcome = "ValueError"]]

\* lines 196-207 and the first pass through the loop head
generate(c, key) ==
    /\ call[c].pc = "idle"
    /\ lastEvt' = Evt("generate", c, "-",
                      IF DOMAIN get_available_validators \subseteq DOMAIN available_validators
                      THEN "-" ELSE "added")
    /\ UNCHANGED <<metagraph, probes, sweepPc, nEvents, nSweeps>>
    /\ IF CheckAuthRaises(key, get_auth_keys)
       THEN /\ available_validators' = sync_db_validators
            /\ auth_keys' = get_auth_keys
            /\ UNCHANGED <<validators_collection, auth_keys_collection>>
            /\ call' = [call EXCEPT ![c] =
                           [IdleCall EXCEPT !.pc = "done", !.key = key,
                                            !.outcome = "AuthenticationError"]]
       ELSE LET validators == Candidates(sync_db_validators)
                rec == [IdleCall EXCEPT !.key = key,
                                        !.validators = validators,
                                        !.eligible0 = {v[1] : v \in validators}]
            IN  DispatchLoop(c, rec, sync_db_validators, get_auth_keys,
                             validators_collection, auth_keys_collection)
    /\ UNCHANGED sweepWrite
    /\ GhostHealthDown({})

\* client.post raised (connect error, timeout, ...): lines 240-242, then the loop head
post_raises(c) ==
    /\ call[c].pc = "await"
    /\ lastEvt' = Evt("attempt", c, call[c].hotkey, "transport")
    /\ UNCHANGED <<metagraph, probes, sweepPc, nEvents, nSweeps>>
    /\ DispatchLoop(c, [call[c] EXCEPT !.failed = @ \cup {call[c].hotkey}],
                    available_validators, auth_keys,
                    validators_collection, auth_keys_collection)
    /\ UNCHANGED sweepWrite
    /\ GhostHealthDown({})

\* lines 261-262: setdefault("request_count", 0), then += 1; KeyError is swallowed
BillKey(keys, key) ==
    IF key \in DOMAIN keys THEN [keys EXCEPT ![key] = @ + 1] ELSE keys

\* lines 263-265
StoreKey(kcoll, keys, key) ==
    IF key \in DOMAIN keys /\ key \in DOMAIN kcoll
    THEN [kcoll EXCEPT ![key] = keys[key]] ELSE kcoll

\* client.post returned a response: lines 243-267, then the loop head
post_returns(c, status_code, body) ==
    /\ call[c].pc = "await"
    /\ UNCHANGED <<metagraph, probes, sweepPc, nEvents, nSweeps>>
    /\ LET hotkey == call[c].hotkey
           response == ResponseJson(body, hotkey)
           output == IF status_code = 200 THEN response ELSE call[c].output
           memory == [available_validators EXCEPT
                         ![hotkey].counter = CountAttempt(@, output)]
           keys == BillKey(auth_keys, call[c].key)
           rec == [call[c] EXCEPT
                      !.output = output,
                      !.failed = IF Truthy(output) THEN @ ELSE @ \cup {hotkey},
                      !.billed = IF call[c].key \in DOMAIN auth_keys THEN @ + 1 ELSE @]
       IN  /\ lastEvt' = [Evt("attempt", c, hotkey, "response") EXCEPT
                              !.status = status_code, !.body = body]
           /\ DispatchLoop(c, rec, memory, keys,
                           UpdateOne(validators_collection, hotkey, memory[hotkey], FALSE),
                           StoreKey(auth_keys_collection, keys, call[c].key))
    /\ UNCHANGED sweepWrite
    /\ GhostHealthDown({})

\* ------------------------------------------------------------- recheck_validators
\* lines 296-301: one thread per known hotkey; `threads` stays empty, so the
\* joins of lines 302-303 wait for nothing
recheck_start ==
    /\ sweepPc = "sleep"
    /\ nEvents < MaxEvents
    /\ nEvents' = nEvents + 1
    /\ nSweeps' = nSweeps + 1
    /\ probes' = probes \cup {<<h, nSweeps + 1>> : h \in DOMAIN available_validators}
    /\ sweepPc' = "persist"
    /\ lastEvt' = Evt("recheck_start", "-", "-", "-")
    /\ UNCHANGED <<available_validators, validators_collection, auth_keys,
                   auth_keys_collection, metagraph, call>>
    /\ UNCHANGED sweepWrite
    /\ GhostHealthDown({})

\* check_validator: the probe was answered without an error status
check_validator_ok(p) ==
    /\ p \in probes
    /\ probes' = probes \ {p}
    /\ lastEvt' = Evt("check_validator", "-", p[1], "ok")
    /\ UNCHANGED <<available_validators, validators_collection, auth_keys,
                   auth_keys_collection, metagraph, call, sweepPc, nEvents,
                   nSweeps>>
    /\ UNCHANGED sweepWrite
    /\ GhostHealthDown({})

\* check_validator: the probe raised (transport error or raise_for_status)
check_validator_fails(p) ==
    /\ p \in probes
    /\ p[1] \in DOMAIN available_validators
    /\ probes' = probes \ {p}
    /\ available_validators' = [available_validators EXCEPT ![p[1]].is_active = FALSE]
    /\ lastEvt' = Evt("check_validator", "-", p[1], "failed")
    /\ UNCHANGED <<validators_collection, auth_keys, auth_keys_collection,
                   metagraph, call, sweepPc, nEvents, nSweeps>>
    /\ UNCHANGED sweepWrite
    /\ GhostHealthDown({p[1]})

\* lines 306-309: every in-memory record is written to the store
PersistAll(memory, collection) ==
    [h \in DOMAIN collection |->
        IF h \in DOMAIN memory THEN SetFields(collection[h], memory[h])
        ELSE collection[h]]

recheck_persist ==
    /\ sweepPc = "persist"
    /\ sweepPc' = "sleep"
    /\ validators_collection' = PersistAll(available_validators, validators_collection)
    /\ lastEvt' = Evt("recheck_persist", "-", "-", "-")
    /\ UNCHANGED <<available_validators, auth_keys, auth_keys_collection,
                   metagraph, call, probes, nEvents, nSweeps>>
    /\ UNCHANGED sweepWrite
    /\ GhostHealthDown({})

\* ------------------------------------------------------------- metagraph sync
sync_metagraph_periodically(m) ==
    /\ nEvents < MaxEvents
    /\ nEvents' = nEvents + 1
    /\ m # metagraph
    /\ metagraph' = m
    /\ lastEvt' = Evt("sync_metagraph", "-", "-", "-")
    /\ UNCHANGED <<available_validators, validators_collection, auth_keys,
                   auth_keys_collection, call, probes, sweepPc, nSweeps>>
    /\ UNCHANGED sweepWrite
    /\ GhostHealthDown({})

Next ==
    \/ \E ip \in ClientIps, uid \in Uids, pf \in Postfixes : get_credentials(ip, uid, pf)
    \/ \E h \in Hotkeys, ip \in ClientIps, pf \in Postfixes :
           other_instance_get_credentials(h, ip, pf)
    \/ \E m \in Metagraphs : sync_metagraph_periodically(m)
    \/ \E c \in Calls, key \in RequestKeys : generate(c, key)
    \/ \E c \in Calls : post_raises(c)
    \/ \E c \in Calls, st \in Statuses, b \in Bodies : post_returns(c, st, b)
    \/ recheck_start
    \/ \E p \in probes : check_validator_ok(p)
    \/ \E p \in probes : check_validator_fails(p)
    \/ recheck_persist

Spec == Init /\ [][Next]_vars

\* ------------------------------------------------------------- the sweep's writes, one by one
\* The write loop of lines 306-309 runs in the recheck thread while the
\* event loop serves /generate. Each update_one encodes the in-memory record
\* when it is called and the store applies it later, so a write of the event
\* loop can reach the store in between.
\* line 306: list(self.available_validators.keys())
recheck_list ==
    /\ sweepPc = "persist"
    /\ sweepPc' = "write"
    /\ sweepWrite' = [NoSweepWrite EXCEPT !.todo = DOMAIN available_validators]
    /\ lastEvt' = Evt("recheck_list", "-", "-", "-")
    /\ UNCHANGED <<available_validators, validators_collection, auth_keys,
                   auth_keys_collection, metagraph, call, probes, nEvents, nSweeps>>
    /\ GhostHealthDown({})

\* lines 307-309, the call: the record of the next hotkey is read and encoded
recheck_encode(hotkey) ==
    /\ sweepPc = "write"
    /\ ~sweepWrite.busy
    /\ hotkey \in sweepWrite.todo
    /\ hotkey \in DOMAIN available_validators
    /\ sweepWrite' = [todo |-> sweepWrite.todo \ {hotkey}, busy |-> TRUE,
                      hotkey |-> hotkey, record |-> available_validators[hotkey]]
    /\ lastEvt' = Evt("recheck_encode", "-", hotkey, "-")
    /\ UNCHANGED <<available_validators, validators_collection, auth_keys,
                   auth_keys_collection, metagraph, call, probes, sweepPc,
                   nEvents, nSweeps>>
    /\ GhostHealthDown({})

\* lines 307-309, the effect: the store applies the encoded $set
recheck_apply ==
    /\ sweepPc = "write"
    /\ sweepWrite.busy
    /\ validators_collection' =
           UpdateOne(validators_collection, sweepWrite.hotkey, sweepWrite.record, FALSE)
    /\ sweepWrite' = [sweepWrite EXCEPT !.busy = FALSE, !.hotkey = "-",
                                        !.record = InitRecord]
    /\ lastEvt' = Evt("recheck_apply", "-", sweepWrite.hotkey, "-")
    /\ UNCHANGED <<available_validators, auth_keys, auth_keys_collection,
                   metagraph, call, probes, sweepPc, nEvents, nSweeps>>
    /\ GhostHealthDown({})

\* line 310: the loop is over, time.sleep(60 * 5)
recheck_sleep ==
    /\ sweepPc = "write"
    /\ ~sweepWrite.busy
    /\ sweepWrite.todo = {}
    /\ sweepPc' = "sleep"
    /\ sweepWrite' = NoSweepWrite
    /\ lastEvt' = Evt("recheck_sleep", "-", "-", "-")
    /\ UNCHANGED <<available_validators, validators_collection, auth_keys,
                   auth_keys_collection, metagraph, call, probes, nEvents, nSweeps>>
    /\ GhostHealthDown({})

NextWrites ==
    \/ \E ip \in ClientIps, uid \in Uids, pf \in Postfixes : get_credentials(ip, uid, pf)
    \/ \E h \in Hotkeys, ip \in ClientIps, pf \in Postfixes :
           other_instance_get_credentials(h, ip, pf)
    \/ \E m \in Metagraphs : sync_metagraph_periodically(m)
    \/ \E c \in Calls, key \in RequestKeys : generate(c, key)
    \/ \E c \in Calls : post_raises(c)
    \/ \E c \in Calls, st \in Statuses, b \in Bodies : post_returns(c, st, b)
    \/ recheck_start
    \/ \E p \in probes : check_validator_ok(p)
    \/ \E p \in probes : check_validator_fails(p)
    \/ recheck_list
    \/ \E h \in Hotkeys : recheck_encode(h)
    \/ recheck_apply
    \/ recheck_sleep

SpecWrites == Init /\ [][NextWrites]_vars

\* ------------------------------------------------------------- store failures
\* The same program with a store that can fail: a pymongo call raises.
\* the store reads of the first lines of generate: find() of line 116, find()
\* of line 120 (both in sync_db, line 197), find() of check_auth (line 161)
StoreReads == {"sync_db validators", "sync_db auth_keys", "check_auth"}

\* the store writes after an attempt: update_one of line 257, of line 263
StoreWrites == {"validators", "auth_keys"}

\* lines 196-198 when a store read raises: nothing catches the error, the
\* handler ends with it; what ran before the failing read stays done
generate_store_raises(c, key, read) ==
    /\ call[c].pc = "idle"
    /\ available_validators' =
           IF read = "sync_db validators" THEN available_validators
           ELSE sync_db_validators
    /\ auth_keys' = IF read = "check_auth" THEN get_auth_keys ELSE auth_keys
    /\ call' = [call EXCEPT ![c] =
                   [IdleCall EXCEPT !.pc = "done", !.key = key,
                                    !.outcome = "StoreError"]]
    /\ lastEvt' = Evt("generate", c, "-", "store read raises")
    /\ UNCHANGED <<validators_collection, auth_keys_collection, metagraph,
                   probes, sweepPc, nEvents, nSweeps>>
    /\ UNCHANGED sweepWrite
    /\ GhostHealthDown({})

\* client.post returned a response and a store write of lines 256-267 raises:
\* the except of line 266 prints it, the rest of the try block is skipped,
\* then the loop head
post_returns_store_raises(c, status_code, body, write) ==
    /\ call[c].pc = "await"
    /\ UNCHANGED <<metagraph, probes, sweepPc, nEvents, nSweeps>>
    /\ LET hotkey == call[c].hotkey
           response == ResponseJson(body, hotkey)
           output == IF status_code = 200 THEN response ELSE call[c].output
           memory == [available_validators EXCEPT
                         ![hotkey].counter = CountAttempt(@, output)]
           reached == write = "auth_keys"
           keys == IF reached THEN BillKey(auth_keys, call[c].key) ELSE auth_keys
           rec == [call[c] EXCEPT
                      !.output = output,
                      !.failed = IF Truthy(output) THEN @ ELSE @ \cup {hotkey},
                      !.billed = IF reached /\ call[c].key \in DOMAIN auth_keys
                                 THEN @ + 1 ELSE @]
       IN  /\ lastEvt' = [Evt("attempt", c, hotkey, "store write raises") EXCEPT
                              !.status = status_code, !.body = body]
           /\ DispatchLoop(c, rec, memory, keys,
                           IF reached
                           THEN UpdateOne(validators_collection, hotkey,
                                          memory[hotkey], FALSE)
                           ELSE validators_collection,
                           auth_keys_collection)
    /\ UNCHANGED sweepWrite
    /\ GhostHealthDown({})

NextFaults ==
    \/ \E ip \in ClientIps, uid \in Uids, pf \in Postfixes : get_credentials(ip, uid, pf)
    \/ \E h \in Hotkeys, ip \in ClientIps, pf \in Postfixes :
           other_instance_get_credentials(h, ip, pf)
    \/ \E m \in Metagraphs : sync_metagraph_periodically(m)
    \/ \E c \in Calls, key \in RequestKeys : generate(c, key)
    \/ \E c \in Calls, key \in RequestKeys, read \in StoreReads :
           generate_store_raises(c, key, read)
    \/ \E c \in Calls : post_raises(c)
    \/ \E c \in Calls, st \in Statuses, b \in Bodies : post_returns(c, st, b)
    \/ \E c \in Calls, st \in Statuses, b \in Bodies, write \in StoreWrites :
           post_returns_store_raises(c, st, b, write)
    \/ recheck_start
    \/ \E p \in probes : check_validator_ok(p)
    \/ \E p \in probes : check_validator_fails(p)
    \/ recheck_persist

SpecFaults == Init /\ [][NextFaults]_vars

\* GET /validators: the hotkeys of the in-memory registry
get_validators == DOMAIN available_validators

\* ------------------------------------------------------------- start-up
\* __init__ seen in two steps, on any persisted registry and any metagraph:
\* the registry is loaded from the store (line 86), then filter_validators
\* runs (line 87)
StoredRecords ==
    {[generate_endpoint |-> Endpoint(ip, pf), is_active |-> a, counter |-> cnt] :
        ip \in ClientIps, pf \in Postfixes \ {""}, a \in BOOLEAN,
        cnt \in {NoCounter, [present |-> TRUE, success |-> 1, failure |-> 1]}}

PersistedStores == UNION {[S -> StoredRecords] : S \in SUBSET Hotkeys}

InitLoad ==
    /\ metagraph \in Metagraphs
    /\ validators_collection \in PersistedStores
    /\ available_validators = get_available_validators
    /\ auth_keys_collection = [k \in ProvisionedKeys |-> 0]
    /\ auth_keys = auth_keys_collection
    /\ call = [c \in Calls |-> IdleCall]
    /\ probes = {}
    /\ sweepPc = "sleep"
    /\ nEvents = 0
    /\ nSweeps = 0
    /\ sweepWrite = NoSweepWrite
    /\ healthDown = {}
    /\ staleProbes = {}
    /\ lastEvt = Evt("load", "-", "-", "-")

filter_validators ==
    /\ lastEvt.op = "load"
    /\ available_validators' =
           FilterMemory(available_validators, MembersOf(metagraph))
    /\ validators_collection' =
           FilterStore(available_validators, validators_collection, MembersOf(metagraph))
    /\ lastEvt' =
           Evt("filter_validators", "-", "-",
               IF DOMAIN available_validators \subseteq MembersOf(metagraph)
               THEN "kept" ELSE "removed")
    /\ UNCHANGED <<auth_keys, auth_keys_collection, metagraph, call, probes,
                   sweepPc, nEvents, nSweeps>>
    /\ UNCHANGED sweepWrite
    /\ GhostHealthDown({})

NextStartup == filter_validators

SpecStartup == InitLoad /\ [][NextStartup]_vars

\* ------------------------------------------------------------- claims
Done(c) == call[c].pc = "done"

Authenticated(c) == call[c].key \in DOMAIN auth_keys_collection

NoDuplicates(seq) == \A i, j \in 1 .. Len(seq) : i # j => seq[i] # seq[j]

\* C1: within one /generate call the sequence of hotkeys a request was sent to
\* holds no hotkey twice.
C1_NoValidatorContactedTwice == \A c \in Calls : NoDuplicates(call[c].sent)

C1_Witness == \E c \in Calls : Done(c) /\ Len(call[c].sent) >= 2

\* C2 (as claimed): an authenticated call ends with NoValidatorsAvailable (404)
\* if and only if its candidate set was empty before any attempt.
C2_NoValidatorsIffNoCandidates ==
    \A c \in Calls :
        Done(c) /\ Authenticated(c) =>
            (call[c].outcome = "NoValidatorsAvailable" <=> call[c].eligible0 = {})

\* C3 (as claimed): an authenticated call ends with AllValidatorsFailed (500) if
\* and only if its candidate set was non-empty and every candidate was attempted
\* once and failed.
C3_AllFailedIffEveryCandidateFailed ==
    \A c \in Calls :
        Done(c) /\ Authenticated(c) =>
            (call[c].outcome = "AllValidatorsFailed" <=>
                /\ call[c].eligible0 # {}
                /\ call[c].failed = call[c].eligible0
                /\ Len(call[c].sent) = Cardinality(call[c].eligible0))

\* C4: a /generate call whose key is not in the auth-key store ends at once with
\* AuthenticationError; it sends no request, bills nothing, and changes no
\* validator record in memory and nothing in the store.
C4_UnknownKeyContactsNobody ==
    [][\A c \in Calls :
          (/\ call[c].pc = "idle"
           /\ call'[c].pc # "idle"
           /\ call'[c].key \notin DOMAIN auth_keys_collection)
          => /\ call'[c].pc = "done"
             /\ call'[c].outcome = "AuthenticationError"
             /\ call'[c].sent = <<>>
             /\ call'[c].billed = 0
             /\ \A h \in DOMAIN available_validators :
                    /\ h \in DOMAIN available_validators'
                    /\ available_validators'[h] = available_validators[h]
             /\ validators_collection' = validators_collection
             /\ auth_keys_collection' = auth_keys_collection
             /\ auth_keys' = auth_keys]_vars

C4_Witness ==
    \E c \in Calls :
        /\ lastEvt.op = "generate"
        /\ Done(c)
        /\ call[c].outcome = "AuthenticationError"
        /\ Candidates(available_validators) # {}

\* C5 (as claimed): every finished call ended in a validator's payload,
\* AuthenticationError, NoValidatorsAvailable or AllValidatorsFailed, and a
\* returned result is the parsed payload of a successful attempt.
C5_OnlyFourOutcomes ==
    \A c \in Calls :
        Done(c) =>
            /\ call[c].outcome \in {"result", "AuthenticationError",
                                    "NoValidatorsAvailable", "AllValidatorsFailed"}
            /\ call[c].outcome = "result" => call[c].output.kind = "json"

\* C6: a /get_credentials call for a hotkey the registry already holds replaces
\* that record's endpoint by the call's "http://" + client_ip + postfix and sets
\* is_active, keeps its counters, adds no record and changes no other record.
C6_ReRegistrationUpdatesInPlace ==
    [][(lastEvt'.op = "get_credentials" /\ lastEvt'.kind = "update")
          => LET h == lastEvt'.hotkey IN
             /\ h \in DOMAIN available_validators
             /\ lastEvt'.endpoint \in
                    {Endpoint(ip, pf) : ip \in ClientIps, pf \in Postfixes \ {""}}
             /\ DOMAIN available_validators' = DOMAIN available_validators
             /\ available_validators'[h] =
                    [available_validators[h] EXCEPT
                        !.generate_endpoint = lastEvt'.endpoint, !.is_active = TRUE]
             /\ \A k \in DOMAIN available_validators \ {h} :
                    available_validators'[k] = available_validators[k]]_vars

C6_Witness ==
    /\ lastEvt.op = "get_credentials"
    /\ lastEvt.kind = "update"
    /\ available_validators[lastEvt.hotkey].counter.present
    /\ available_validators[lastEvt.hotkey].counter.failure > 0
    /\ available_validators[lastEvt.hotkey].generate_endpoint # InitRecord.generate_endpoint

\* C7 (as claimed): a call that returns a result raised request_count by exactly
\* 1, and a call that fails did not raise it.
C7_BilledOnlyOnSuccess ==
    \A c \in Calls :
        Done(c) => call[c].billed = (IF call[c].outcome = "result" THEN 1 ELSE 0)

\* C8 (as claimed): every failed attempt, by transport error or by status,
\* raises the attempted validator's failure counter by exactly 1.
C8_EveryFailedAttemptCounted ==
    [][\A c \in Calls :
          (call[c].pc = "await" /\ call[c].hotkey \in call'[c].failed)
          => available_validators'[call[c].hotkey].counter.failure =
                 available_validators[call[c].hotkey].counter.failure + 1]_vars

\* C9 (as claimed): an answered attempt counts as a success and ends the call
\* with the body as result if and only if the status is 2xx and the body is
\* parseable JSON; a body that cannot be parsed is never the result.
C9_SuccessIff2xxAndJson ==
    [][\A c \in Calls, st \in Statuses, b \in Bodies :
          post_returns(c, st, b)
          => /\ (/\ call'[c].outcome = "result"
                 /\ available_validators'[call[c].hotkey].counter.success =
                        available_validators[call[c].hotkey].counter.success + 1)
                <=> (st \in {200, 201} /\ b \in {"json", "empty"})
             /\ call'[c].outcome = "result" => call'[c].output.kind # "error"]_vars

\* C10: a validator that check_validator deactivated leaves the set of
\* deactivated validators (becomes active again) only in a step that is its own
\* registration or a successful recheck of it.
C10_InactiveUntilRegistrationOrRecheck ==
    [][\A h \in healthDown :
          h \in healthDown'
          \/ /\ lastEvt'.hotkey = h
             /\ \/ lastEvt'.op = "get_credentials" /\ lastEvt'.kind = "update"
                \/ lastEvt'.op = "check_validator" /\ lastEvt'.kind = "ok"]_vars

C10_Witness ==
    /\ lastEvt.op = "generate"
    /\ \E h \in healthDown :
          /\ h \in DOMAIN validators_collection
          /\ validators_collection[h].is_active

\* C11: filter_validators with the metagraph's hotkeys M drops from memory and
\* from the store exactly the registry's validators whose hotkey is not in M,
\* and every validator left in memory has is_active = FALSE.
C11_ReconcileDropsNonMembers ==
    [][lastEvt'.op = "filter_validators"
          => LET M == MembersOf(metagraph) IN
             /\ DOMAIN available_validators' = DOMAIN available_validators \cap M
             /\ DOMAIN validators_collection' =
                    DOMAIN validators_collection \ (DOMAIN available_validators \ M)
             /\ \A h \in DOMAIN available_validators' :
                    ~available_validators'[h].is_active]_vars

C11_Witness ==
    /\ lastEvt.op = "filter_validators"
    /\ lastEvt.kind = "removed"
    /\ DOMAIN available_validators # {}
    /\ \E h \in DOMAIN validators_collection : validators_collection[h].is_active

\* C12: a registration with an empty postfix, or with a uid outside
\* 0 .. (number of metagraph hotkeys - 1), negative uids included, is answered
\* with the 404 of the registration errors and leaves memory and store as
\* they were.
C12_BadRegistrationRejected ==
    [][\A client_ip \in ClientIps, uid \in Uids, postfix \in Postfixes :
          (/\ get_credentials(client_ip, uid, postfix)
           /\ \/ postfix = ""
              \/ uid \notin 0 .. (Len(metagraph.hotkeys) - 1))
          => /\ lastEvt'.kind = "404"
             /\ UNCHANGED <<available_validators, validators_collection>>]_vars

\* C14: once a metagraph sync has completed, no validator whose hotkey is
\* outside the synced metagraph is left in memory, in the store or in the
\* answer of GET /validators.
C14_NoNonMemberAfterSync ==
    lastEvt.op = "sync_metagraph"
        => \A h \in DOMAIN available_validators
                     \cup DOMAIN validators_collection \cup get_validators :
               InMetagraph(h)

\* the hotkeys a call has contacted or may still contact
Pool(rec) == {v[1] : v \in rec.validators} \cup {rec.sent[i] : i \in 1 .. Len(rec.sent)}

\* C15: every validator a /generate call contacts was, in the registry the
\* call built its candidate list from, active and a hotkey of the metagraph;
\* whatever runs while the call awaits a validator adds nobody to its pool.
C15_ContactedWereEligibleAtBuild ==
    [][\A c \in Calls :
          IF call[c].pc = "idle"
          THEN \A h \in Pool(call'[c]) :
                  /\ h \in DOMAIN available_validators'
                  /\ available_validators'[h].is_active
                  /\ \E i \in 1 .. Len(metagraph.hotkeys) : metagraph.hotkeys[i] = h
          ELSE Pool(call'[c]) \subseteq Pool(call[c])]_vars

C15_Witness ==
    \E c \in Calls :
        /\ Len(call[c].sent) >= 1
        /\ lastEvt.op = "generate"
        /\ \E h \in DOMAIN available_validators \ Pool(call[c]) :
               ~available_validators[h].is_active \/ ~InMetagraph(h)

\* C16: when the sweep writes the registry to the store, no probe started by
\* that sweep is still running.
C16_PersistAfterProbesDone ==
    lastEvt.op = "recheck_persist" => \A p \in probes : p[2] # nSweeps

\* C17: probes started by two different sweeps are never running at the
\* same time.
C17_ProbesOfOneSweepOnly ==
    \A p, q \in probes : p[2] = q[2]

\* C18: the success and failure counters of a validator are never negative
\* and never decrease, neither in memory nor in the store document, whatever
\* the interleaving of /generate, sweeps, registrations and sync_db.
C18_CountersNeverDecrease ==
    [][/\ \A h \in DOMAIN available_validators \cap DOMAIN available_validators' :
             /\ available_validators'[h].counter.success
                    >= available_validators[h].counter.success
             /\ available_validators'[h].counter.failure
                    >= available_validators[h].counter.failure
             /\ available_validators[h].counter.success >= 0
             /\ available_validators[h].counter.failure >= 0
       /\ \A h \in DOMAIN validators_collection \cap DOMAIN validators_collection' :
             /\ validators_collection'[h].counter.success
                    >= validators_collection[h].counter.success
             /\ validators_collection'[h].counter.failure
                    >= validators_collection[h].counter.failure
             /\ validators_collection[h].counter.success >= 0
             /\ validators_collection[h].counter.failure >= 0]_vars

\* C19: a store operation that raises during a /generate call, be it a read
\* of the opening re-sync or a write after an attempt, does not end the call
\* with the store's error, and an attempt that succeeded while its write
\* failed still returns its payload.
C19_StoreFailureNeverFailsCall ==
    \A c \in Calls :
        /\ call[c].outcome # "StoreError"
        /\ (/\ lastEvt.op = "attempt"
            /\ lastEvt.kind = "store write raises"
            /\ Truthy(call[c].output))
           => (Done(c) /\ call[c].outcome = "result")

\* the fields sync_db could touch are the same in both records (the loop of
\* generate may since have created an empty counter, which counts nothing)
SameRecord(r1, r2) ==
    /\ r1.generate_endpoint = r2.generate_endpoint
    /\ r1.is_active = r2.is_active
    /\ r1.counter.success = r2.counter.success
    /\ r1.counter.failure = r2.counter.failure

\* C20: the sync_db that opens a /generate call adds to the in-memory
\* registry exactly the store records whose hotkey memory did not hold, as
\* stored, and leaves every record memory already held as it was, whatever
\* the store says about it.
C20_SyncDbOnlyAdds ==
    [][lastEvt'.op = "generate"
          => /\ DOMAIN available_validators' =
                    DOMAIN available_validators \cup DOMAIN validators_collection
             /\ \A h \in DOMAIN available_validators :
                    SameRecord(available_validators'[h], available_validators[h])
             /\ \A h \in DOMAIN validators_collection \ DOMAIN available_validators :
                    SameRecord(available_validators'[h], validators_collection[h])]_vars

C20_Witness ==
    /\ lastEvt.op = "generate"
    /\ lastEvt.kind = "added"
    /\ \E h \in DOMAIN available_validators \cap DOMAIN validators_collection :
           ~SameRecord(available_validators[h], validators_collection[h])

\* C21: a probe that was already running when its validator registered again
\* and that then fails does not change the is_active the registration set.
C21_StaleProbeKeepsRegistration ==
    [][\A p \in staleProbes :
          (/\ p \notin probes'
           /\ lastEvt'.op = "check_validator"
           /\ lastEvt'.kind = "failed")
          => available_validators'[p[1]].is_active
                 = available_validators[p[1]].is_active]_vars

====
